---------------------------- MODULE Spec2Model ----------------------------
(***************************************************************************)
(* A model of the circuit breaker of gosafecircuit.go: the CircuitBreaker  *)
(* struct, NewCircuitBreaker, Execute with its private helpers trip and    *)
(* reset, and the three hook setters.                                      *)
(*                                                                         *)
(* Execute is modelled per caller (goroutine) as the sequence of its       *)
(* blocking points: waiting for the mutex, the switch on cb.state, the     *)
(* time spent inside fn(), inside a hook and inside time.Sleep, and the    *)
(* deferred Unlock.  Everything the code does between two blocking points  *)
(* is one step.                                                            *)
(***************************************************************************)
EXTENDS Integers, FiniteSets

\* ------------------------------------------------------------------------
\* Bounds of the model
\* ------------------------------------------------------------------------
\* goroutines calling Execute
NumCallers == 2
\* invocations of fn() after which no further Execute call is begun (caps
\* the lifetime counters), but for the calls a recovered operation needs to
\* bring the breaker back to Closed
MaxOps == 4
\* maxFailures and maxConsecutiveSuccesses range over -1..MaxThreshold
MaxThreshold == 2
\* timeout ranges over 0..MaxTimeout clock units
MaxTimeout == 1
\* pauseTime ranges over 0..MaxPause clock units
MaxPause == 1
\* the clock is advanced from 1 up to MaxTime between the steps of the
\* callers (time.Sleep moves it on by pauseTime wherever it stands, and once
\* the operation has recovered the clock runs on to the end of a cooldown)
MaxTime == 3

Callers == 1..NumCallers
Thresholds == -1..MaxThreshold

\* ------------------------------------------------------------------------
\* Values of the program
\* ------------------------------------------------------------------------
StateClosed == 0
StateOpen == 1
StateHalfOpen == 2

\* sync.Mutex: the zero value is unlocked; a locked mutex is modelled by the
\* caller that holds it
Unlocked == 0

\* time.Time{}: the zero time, before every reading of the clock
ZeroTime == 0

\* a func() field: nil, or some callback
NilHook == "nil"
Hooks == {NilHook, "callback"}

\* what fn() returns: nil or one of the operation's own errors
Nil == "nil"
OpErrors == {"errA", "errB"}
OpResults == {Nil} \cup OpErrors
\* errors.New("circuit breaker is open")
ErrOpen == "circuit breaker is open"

VARIABLES
    cb,       \* the CircuitBreaker struct (all fields but the mutex)
    mutex,    \* cb.mutex: Unlocked, or the caller holding it
    now,      \* the clock read by time.Now()
    pc,       \* per caller: where it is in Execute
    call,     \* bookkeeping of the Execute call that holds the mutex
    nFail,    \* fn() invocations so far that returned an error
    nSucc,    \* fn() invocations so far that returned nil
    failRun,  \* failing fn() invocations in a row made by calls that found
              \* the breaker Closed, since it was last Closed with no failure
    okRun,    \* fn() invocations that returned nil since the last trip(),
              \* made by calls that found the breaker Open or HalfOpen
    healed    \* the protected operation has recovered: from now on every
              \* fn() returns nil

vars == <<cb, mutex, now, pc, call, nFail, nSucc, failRun, okRun, healed>>

\* ------------------------------------------------------------------------
\* The struct and its helpers
\* ------------------------------------------------------------------------
NewCircuitBreaker(maxFailures, timeout, pauseTime, maxConsecutiveSuccesses) ==
    [ state                   |-> StateClosed,
      consecutiveFailures     |-> 0,
      totalFailures           |-> 0,
      totalSuccesses          |-> 0,
      maxFailures             |-> maxFailures,
      timeout                 |-> timeout,
      openTimeout             |-> ZeroTime,
      pauseTime               |-> pauseTime,
      consecutiveSuccesses    |-> 0,
      maxConsecutiveSuccesses |-> maxConsecutiveSuccesses,
      onOpen                  |-> NilHook,
      onClose                 |-> NilHook,
      onHalfOpen              |-> NilHook ]

\* a comparison that never finds the cooldown over
AfterNever(t, u) == FALSE

\* a comparison that also lets a call through at the instant openTimeout
AfterOrAt(t, u) == t >= u

\* t.After(u)
After(t, u) == t > u

\* a trip() that leaves the consecutive counters as they are
tripKeepingCounters(b, t) ==
    [b EXCEPT !.state = StateOpen,
              !.openTimeout = t + b.timeout]

\* trip(), up to the call of the hook
trip(b, t) ==
    [b EXCEPT !.state = StateOpen,
              !.consecutiveFailures = 0,
              !.consecutiveSuccesses = 0,
              !.openTimeout = t + b.timeout]

\* reset(), up to the call of the hook
reset(b) ==
    [b EXCEPT !.state = StateClosed,
              !.consecutiveFailures = 0,
              !.consecutiveSuccesses = 0]

\* a threshold test that trips one failure late
TripDueStrict(b) == b.consecutiveFailures > b.maxFailures

\* if cb.consecutiveFailures >= cb.maxFailures
TripDue(b) == b.consecutiveFailures >= b.maxFailures

\* a threshold test that asks for one success more
ResetDueStrict(b) == b.consecutiveSuccesses > b.maxConsecutiveSuccesses

\* a threshold test that takes a non-positive threshold as "never reset"
ResetDueIfPositive(b) ==
    /\ b.maxConsecutiveSuccesses > 0
    /\ b.consecutiveSuccesses >= b.maxConsecutiveSuccesses

\* if cb.consecutiveSuccesses >= cb.maxConsecutiveSuccesses
ResetDue(b) == b.consecutiveSuccesses >= b.maxConsecutiveSuccesses

\* if cb.onOpen != nil, if cb.onClose != nil, if cb.onHalfOpen != nil
OnOpenSet(b) == b.onOpen # NilHook

OnCloseSet(b) == b.onClose # NilHook

\* a transition to HalfOpen that never calls its hook
OnHalfOpenNever(b) == FALSE

OnHalfOpenSet(b) == b.onHalfOpen # NilHook

\* an Execute that does not wait for the mutex
MutexNotAwaited == TRUE

\* cb.mutex.Lock() returns only when the mutex is free
MutexFree == mutex = Unlocked

\* an Execute that swallows the operation's error
ReturnedNil(err) == Nil

\* return err
Returned(err) == err

\* the fields Execute, trip and reset write
Data(b) ==
    <<b.state, b.consecutiveFailures, b.consecutiveSuccesses,
      b.totalFailures, b.totalSuccesses, b.openTimeout>>

\* the hook fields
HookFields(b) == <<b.onOpen, b.onClose, b.onHalfOpen>>

\* ------------------------------------------------------------------------
\* Bookkeeping of one Execute call
\* ------------------------------------------------------------------------
NoCall ==
    [ path          |-> "none",    \* which way the switch went
      entry         |-> NewCircuitBreaker(0, 0, 0, 0),  \* cb at the switch
      entryNow      |-> ZeroTime,  \* the clock at the switch
      invoked       |-> 0,         \* invocations of fn()
      err           |-> "none",    \* what fn() returned
      ret           |-> "none",    \* what Execute returns
      firedOpen     |-> 0,         \* invocations of each hook
      firedClose    |-> 0,
      firedHalfOpen |-> 0,
      trips         |-> 0,         \* executions of trip() and reset()
      resets        |-> 0,
      tripNow       |-> ZeroTime,  \* the clock when trip() ran
      slept         |-> 0,         \* executions of time.Sleep
      wrote         |-> Data(NewCircuitBreaker(0, 0, 0, 0)) ]

InCritical == {"switch", "onHalfOpen", "probe", "fn", "onOpen", "onClose",
               "sleep", "ret"}

\* the breaker as constructed from arguments drawn from the given sets,
\* before any call; the goroutines in `running` use it, the others never
\* start
Start(running, failures, successes, timeouts, pauses) ==
    /\ \E mf \in failures, mcs \in successes,
          to \in timeouts, pt \in pauses :
          cb = NewCircuitBreaker(mf, to, pt, mcs)
    /\ mutex = Unlocked
    /\ now = ZeroTime + 1
    /\ pc = [t \in Callers |-> IF t \in running THEN "idle" ELSE "off"]
    /\ call = NoCall
    /\ nFail = 0
    /\ nSucc = 0
    /\ failRun = 0
    /\ okRun = 0
    /\ healed = FALSE

\* one goroutine, every configuration: every sequence of Execute and setter
\* calls
Init == Start({1}, Thresholds, Thresholds, 0..MaxTimeout, 0..MaxPause)

\* all goroutines at once, on a breaker with positive thresholds and delays
InitConc ==
    Start(Callers, {MaxThreshold}, {MaxThreshold},
          {MaxTimeout}, {MaxPause})

\* ------------------------------------------------------------------------
\* Execute, step by step
\* ------------------------------------------------------------------------
Goto(t, where) == pc' = [pc EXCEPT ![t] = where]

\* what the caller holding the mutex has itself left in the data fields
Track(c) == [c EXCEPT !.wrote = Data(cb')]

\* a caller calls cb.Execute(fn) and blocks in cb.mutex.Lock()
Call(t) ==
    /\ pc[t] = "idle"
    /\ \/ nFail + nSucc < MaxOps
       \/ healed /\ cb.state # StateClosed
    /\ Goto(t, "lock")
    /\ UNCHANGED <<cb, mutex, now, call, nFail, nSucc, failRun, okRun, healed>>

\* cb.mutex.Lock() returns
Lock(t) ==
    /\ pc[t] = "lock"
    /\ MutexFree
    /\ mutex' = t
    /\ Goto(t, "switch")
    /\ call' = [NoCall EXCEPT !.wrote = Data(cb)]
    /\ UNCHANGED <<cb, now, nFail, nSucc, failRun, okRun, healed>>

\* switch cb.state: the Open case is decided here; the HalfOpen case and the
\* code after the switch start their invocation of fn()
Switch(t) ==
    /\ pc[t] = "switch"
    /\ LET c == [call EXCEPT !.entry = cb, !.entryNow = now] IN
       IF cb.state = StateOpen
       THEN IF After(now, cb.openTimeout)
            THEN /\ cb' = [cb EXCEPT !.state = StateHalfOpen]
                 /\ IF OnHalfOpenSet(cb)
                    THEN /\ Goto(t, "onHalfOpen")
                         /\ call' = Track([c EXCEPT !.path = "reopen",
                                                    !.firedHalfOpen = @ + 1])
                    ELSE /\ Goto(t, "fn")
                         /\ call' = Track([c EXCEPT !.path = "reopen",
                                                    !.invoked = @ + 1])
            ELSE /\ cb' = cb
                 /\ Goto(t, "ret")
                 /\ call' = Track([c EXCEPT !.path = "fast",
                                            !.ret = ErrOpen])
       ELSE IF cb.state = StateHalfOpen
            THEN /\ cb' = cb
                 /\ Goto(t, "probe")
                 /\ call' = Track([c EXCEPT !.path = "halfopen",
                                            !.invoked = @ + 1])
            ELSE /\ cb' = cb
                 /\ Goto(t, "fn")
                 /\ call' = Track([c EXCEPT !.path = "closed",
                                            !.invoked = @ + 1])
    /\ UNCHANGED <<mutex, now, nFail, nSucc, failRun, okRun, healed>>

\* cb.onHalfOpen() returns; control leaves the switch and reaches the
\* invocation of fn() after it
OnHalfOpenReturn(t) ==
    /\ pc[t] = "onHalfOpen"
    /\ Goto(t, "fn")
    /\ call' = [call EXCEPT !.invoked = @ + 1]
    /\ UNCHANGED <<cb, mutex, now, nFail, nSucc, failRun, okRun, healed>>

\* case StateHalfOpen: fn() returns r
ProbeReturn(t, r) ==
    /\ pc[t] = "probe"
    /\ failRun' = 0
    /\ okRun' = IF r = Nil THEN okRun + 1 ELSE 0
    /\ IF r = Nil
       THEN /\ nSucc' = nSucc + 1
            /\ nFail' = nFail
            /\ LET b1 == [cb EXCEPT !.consecutiveSuccesses = @ + 1,
                                    !.totalSuccesses = @ + 1] IN
               IF ResetDue(b1)
               THEN /\ cb' = reset(b1)
                    /\ IF OnCloseSet(cb)
                       THEN /\ Goto(t, "onClose")
                            /\ call' = Track([call EXCEPT !.err = r,
                                                  !.resets = @ + 1,
                                                  !.firedClose = @ + 1])
                       ELSE /\ Goto(t, "sleep")
                            /\ call' = Track([call EXCEPT !.err = r,
                                                  !.resets = @ + 1])
               ELSE /\ cb' = b1
                    /\ Goto(t, "sleep")
                    /\ call' = Track([call EXCEPT !.err = r])
       ELSE /\ nFail' = nFail + 1
            /\ nSucc' = nSucc
            /\ cb' = trip(cb, now)
            /\ IF OnOpenSet(cb)
               THEN /\ Goto(t, "onOpen")
                    /\ call' = Track([call EXCEPT !.err = r,
                                          !.trips = @ + 1,
                                          !.tripNow = now,
                                          !.firedOpen = @ + 1])
               ELSE /\ Goto(t, "sleep")
                    /\ call' = Track([call EXCEPT !.err = r,
                                          !.trips = @ + 1,
                                          !.tripNow = now])
    /\ UNCHANGED <<mutex, now, healed>>

\* after the switch: fn() returns r
FnReturn(t, r) ==
    /\ pc[t] = "fn"
    /\ IF r = Nil
       THEN /\ nSucc' = nSucc + 1
            /\ nFail' = nFail
            /\ failRun' = 0
            /\ okRun' = IF call.entry.state = StateClosed
                        THEN 0 ELSE okRun + 1
            /\ IF OnCloseSet(cb)
               THEN /\ cb' = reset(cb)
                    /\ Goto(t, "onClose")
                    /\ call' = Track([call EXCEPT !.err = r,
                                          !.resets = @ + 1,
                                          !.firedClose = @ + 1])
               ELSE /\ cb' = [reset(cb) EXCEPT !.totalSuccesses = @ + 1]
                    /\ Goto(t, "ret")
                    /\ call' = Track([call EXCEPT !.err = r,
                                          !.resets = @ + 1,
                                          !.ret = Returned(r)])
       ELSE /\ nFail' = nFail + 1
            /\ nSucc' = nSucc
            /\ failRun' = IF call.entry.state = StateClosed
                          THEN failRun + 1 ELSE 0
            /\ LET b1 == [cb EXCEPT !.consecutiveFailures = @ + 1,
                                    !.totalFailures = @ + 1] IN
               IF TripDue(b1)
               THEN /\ cb' = trip(b1, now)
                    /\ okRun' = 0
                    /\ IF OnOpenSet(cb)
                       THEN /\ Goto(t, "onOpen")
                            /\ call' = Track([call EXCEPT !.err = r,
                                                  !.trips = @ + 1,
                                                  !.tripNow = now,
                                                  !.firedOpen = @ + 1])
                       ELSE /\ Goto(t, "ret")
                            /\ call' = Track([call EXCEPT !.err = r,
                                                  !.trips = @ + 1,
                                                  !.tripNow = now,
                                                  !.ret = Returned(r)])
               ELSE /\ cb' = b1
                    /\ okRun' = okRun
                    /\ Goto(t, "ret")
                    /\ call' = Track([call EXCEPT !.err = r,
                                          !.ret = Returned(r)])
    /\ UNCHANGED <<mutex, now, healed>>

\* cb.onOpen() returns, and with it trip()
OnOpenReturn(t) ==
    /\ pc[t] = "onOpen"
    /\ IF call.path = "halfopen"
       THEN /\ Goto(t, "sleep")
            /\ call' = call
       ELSE /\ Goto(t, "ret")
            /\ call' = [call EXCEPT !.ret = Returned(call.err)]
    /\ UNCHANGED <<cb, mutex, now, nFail, nSucc, failRun, okRun, healed>>

\* cb.onClose() returns, and with it reset(); after the switch the
\* statement cb.totalSuccesses++ follows
OnCloseReturn(t) ==
    /\ pc[t] = "onClose"
    /\ IF call.path = "halfopen"
       THEN /\ cb' = cb
            /\ Goto(t, "sleep")
            /\ call' = call
       ELSE /\ cb' = [cb EXCEPT !.totalSuccesses = @ + 1]
            /\ Goto(t, "ret")
            /\ call' = Track([call EXCEPT !.ret = Returned(call.err)])
    /\ UNCHANGED <<mutex, now, nFail, nSucc, failRun, okRun, healed>>

\* time.Sleep(cb.pauseTime) returns
Sleep(t) ==
    /\ pc[t] = "sleep"
    /\ now' = now + cb.pauseTime
    /\ Goto(t, "ret")
    /\ call' = [call EXCEPT !.slept = @ + 1, !.ret = Returned(call.err)]
    /\ UNCHANGED <<cb, mutex, nFail, nSucc, failRun, okRun, healed>>

\* an Execute that returns without releasing the mutex
UnlockForgotten(t) ==
    /\ pc[t] = "ret"
    /\ Goto(t, "idle")
    /\ UNCHANGED <<cb, mutex, now, call, nFail, nSucc, failRun, okRun, healed>>

\* the deferred cb.mutex.Unlock(); Execute returns call.ret
Unlock(t) ==
    /\ pc[t] = "ret"
    /\ mutex' = Unlocked
    /\ Goto(t, "idle")
    /\ call' = NoCall
    /\ UNCHANGED <<cb, now, nFail, nSucc, failRun, okRun, healed>>

\* ------------------------------------------------------------------------
\* The hook setters: plain writes, no lock taken, made by a goroutine that
\* is not itself inside Execute
\* ------------------------------------------------------------------------
SetOnOpen(t, callback) ==
    /\ pc[t] = "idle"
    /\ cb' = [cb EXCEPT !.onOpen = callback]
    /\ UNCHANGED <<mutex, now, pc, call, nFail, nSucc, failRun, okRun, healed>>

SetOnClose(t, callback) ==
    /\ pc[t] = "idle"
    /\ cb' = [cb EXCEPT !.onClose = callback]
    /\ UNCHANGED <<mutex, now, pc, call, nFail, nSucc, failRun, okRun, healed>>

SetOnHalfOpen(t, callback) ==
    /\ pc[t] = "idle"
    /\ cb' = [cb EXCEPT !.onHalfOpen = callback]
    /\ UNCHANGED <<mutex, now, pc, call, nFail, nSucc, failRun, okRun, healed>>

\* ------------------------------------------------------------------------
\* The clock
\* ------------------------------------------------------------------------
\* a clock with a timer that moves the breaker on when the cooldown is over
TickWithTimer ==
    /\ now < MaxTime
    /\ now' = now + 1
    /\ cb' = IF cb.state = StateOpen /\ After(now + 1, cb.openTimeout)
             THEN [cb EXCEPT !.state = StateHalfOpen] ELSE cb
    /\ UNCHANGED <<mutex, pc, call, nFail, nSucc, failRun, okRun, healed>>

Tick ==
    /\ \/ now < MaxTime
       \/ healed /\ cb.state = StateOpen /\ now <= cb.openTimeout
    /\ now' = now + 1
    /\ UNCHANGED <<cb, mutex, pc, call, nFail, nSucc, failRun, okRun, healed>>

\* what an invocation of fn() can return now
Outcomes == IF healed THEN {Nil} ELSE OpResults

Next ==
    \/ \E t \in Callers : Call(t)
    \/ \E t \in Callers : Lock(t)
    \/ \E t \in Callers : Switch(t)
    \/ \E t \in Callers : OnHalfOpenReturn(t)
    \/ \E t \in Callers, r \in Outcomes : ProbeReturn(t, r)
    \/ \E t \in Callers, r \in Outcomes : FnReturn(t, r)
    \/ \E t \in Callers : OnOpenReturn(t)
    \/ \E t \in Callers : OnCloseReturn(t)
    \/ \E t \in Callers : Sleep(t)
    \/ \E t \in Callers : Unlock(t)
    \/ \E t \in Callers, h \in Hooks : SetOnOpen(t, h)
    \/ \E t \in Callers, h \in Hooks : SetOnClose(t, h)
    \/ \E t \in Callers, h \in Hooks : SetOnHalfOpen(t, h)
    \/ Tick

Spec == Init /\ [][Next]_vars

ConcSpec == InitConc /\ [][Next]_vars

\* ------------------------------------------------------------------------
\* Recovery and termination
\* ------------------------------------------------------------------------
\* the protected operation recovers
Heal ==
    /\ ~healed
    /\ healed' = TRUE
    /\ UNCHANGED <<cb, mutex, now, pc, call, nFail, nSucc, failRun, okRun>>

\* fn() or a hook calls cb.Execute on the same breaker and blocks in
\* cb.mutex.Lock(): sync.Mutex is not reentrant
Reenter(t) ==
    /\ pc[t] \in {"onHalfOpen", "probe", "fn", "onOpen", "onClose"}
    /\ Goto(t, "nested")
    /\ UNCHANGED <<cb, mutex, now, call, nFail, nSucc, failRun, okRun, healed>>

\* the steps of a caller that holds the mutex, when fn() and the hooks
\* return
Step(t) ==
    \/ Switch(t)
    \/ OnHalfOpenReturn(t)
    \/ \E r \in Outcomes : ProbeReturn(t, r)
    \/ \E r \in Outcomes : FnReturn(t, r)
    \/ OnOpenReturn(t)
    \/ OnCloseReturn(t)
    \/ Sleep(t)
    \/ Unlock(t)

NextLive == Next \/ Heal

NextReent == Next \/ \E t \in Callers : Reenter(t)

\* one goroutine that keeps calling Execute while the clock keeps running
RecoverSpec ==
    /\ Init
    /\ [][NextLive]_vars
    /\ WF_vars(Tick)
    /\ \A t \in Callers :
          WF_vars(Call(t)) /\ WF_vars(Lock(t)) /\ WF_vars(Step(t))

\* all goroutines, a fair mutex, and fn() and hooks that return unless they
\* call Execute themselves
TermSpec ==
    /\ InitConc
    /\ [][NextReent]_vars
    /\ \A t \in Callers : SF_vars(Lock(t)) /\ WF_vars(Step(t))


\* ------------------------------------------------------------------------
\* Properties
\* ------------------------------------------------------------------------
\* the caller holding the mutex has passed the switch
Switched == mutex # Unlocked /\ call.path # "none"

\* the caller holding the mutex is about to return from Execute
Returning == mutex # Unlocked /\ pc[mutex] = "ret"

\* the call in progress found the breaker Open with the cooldown not over
FoundOpenEarly ==
    /\ call.entry.state = StateOpen
    /\ call.entryNow <= call.entry.openTimeout

\* the call in progress found the breaker Open with the cooldown over
FoundOpenLate ==
    /\ call.entry.state = StateOpen
    /\ call.entryNow > call.entry.openTimeout

Fired(set) == IF set THEN 1 ELSE 0

\* C1: with maxFailures >= 1, a call that finds the breaker Closed and whose
\* operation fails is the failRun-th failure in a row since the breaker was
\* Closed with no failure counted; for failRun < maxFailures it leaves the
\* breaker Closed without running trip() or onOpen, and for
\* failRun = maxFailures it leaves it Open after one trip() and one onOpen
\* (if set); the run never gets longer than maxFailures.
C1_TripOnMaxFailuresthFailure ==
    (Returning /\ call.path = "closed" /\ call.err \in OpErrors
               /\ cb.maxFailures >= 1) =>
        /\ failRun >= 1
        /\ failRun <= cb.maxFailures
        /\ failRun < cb.maxFailures =>
              /\ cb.state = StateClosed
              /\ cb.consecutiveFailures = failRun
              /\ call.trips = 0
              /\ call.firedOpen = 0
        /\ failRun = cb.maxFailures =>
              /\ cb.state = StateOpen
              /\ call.trips = 1
              /\ call.firedOpen = Fired(call.entry.onOpen # NilHook)

C1_Witness ==
    /\ Returning
    /\ call.path = "closed"
    /\ call.err \in OpErrors
    /\ cb.maxFailures = MaxThreshold
    /\ failRun = cb.maxFailures
    /\ cb.state = StateOpen
    /\ call.firedOpen = 1

\* C2: a call that finds the breaker Open at a time at or before openTimeout
\* goes straight to its return with the open-circuit error, having invoked
\* neither the operation nor a hook, and with the state, the four counters
\* and openTimeout as it found them.
C2_FastFailWhileCoolingDown ==
    (Switched /\ FoundOpenEarly) =>
        /\ pc[mutex] = "ret"
        /\ call.ret = ErrOpen
        /\ call.invoked = 0
        /\ call.firedOpen = 0 /\ call.firedClose = 0 /\ call.firedHalfOpen = 0
        /\ call.trips = 0 /\ call.resets = 0
        /\ Data(cb) = Data(call.entry)

C2_Witness ==
    /\ Returning
    /\ FoundOpenEarly
    /\ call.ret = ErrOpen
    /\ cb.timeout > 0
    /\ call.entryNow > call.entry.openTimeout - cb.timeout
    /\ nFail >= 1

\* C3: a call that invokes the operation with the breaker HalfOpen (found
\* HalfOpen, or found Open after the cooldown and moved to HalfOpen) and
\* whose operation fails returns with the state Open, both consecutive
\* counters 0 and openTimeout = the trip instant + timeout.
C3_FailedProbeTrips ==
    (Returning /\ call.path \in {"reopen", "halfopen"}
               /\ call.err \in OpErrors) =>
        /\ cb.state = StateOpen
        /\ cb.consecutiveFailures = 0
        /\ cb.consecutiveSuccesses = 0
        /\ call.trips = 1
        /\ cb.openTimeout = call.tripNow + cb.timeout

\* C4: with maxConsecutiveSuccesses >= 2, a call that finds the breaker Open
\* or HalfOpen and leaves it Closed is at least the
\* maxConsecutiveSuccesses-th successful invocation since the last trip; in
\* particular the first success after the cooldown leaves the breaker
\* HalfOpen with consecutiveSuccesses = 1.
C4_NoEarlyClose ==
    (Returning /\ call.entry.state # StateClosed
               /\ cb.maxConsecutiveSuccesses >= 2) =>
        /\ cb.state = StateClosed => okRun >= cb.maxConsecutiveSuccesses
        /\ (call.path = "reopen" /\ call.err = Nil) =>
              /\ cb.state = StateHalfOpen
              /\ cb.consecutiveSuccesses = 1

\* C5: a call that finds the breaker Open at a time after openTimeout moves
\* it to HalfOpen, invokes onHalfOpen once (if set) before the operation,
\* invokes the operation exactly once and never returns the open-circuit
\* error.
C5_ReopenAfterCooldown ==
    (Switched /\ FoundOpenLate) =>
        /\ call.path = "reopen"
        /\ call.ret # ErrOpen
        /\ call.firedHalfOpen = Fired(call.entry.onHalfOpen # NilHook)
        /\ call.invoked = IF pc[mutex] = "onHalfOpen" THEN 0 ELSE 1
        /\ pc[mutex] \in {"onHalfOpen", "fn"} => cb.state = StateHalfOpen

C5_Witness ==
    /\ Returning
    /\ FoundOpenLate
    /\ call.firedHalfOpen = 1
    /\ call.invoked = 1
    /\ call.ret \in OpResults

\* C6: between Execute calls, totalFailures is the number of invocations of
\* the operation that returned an error and totalSuccesses the number that
\* returned nil.
C6_TotalsCountInvocations ==
    mutex = Unlocked =>
        /\ cb.totalFailures = nFail
        /\ cb.totalSuccesses = nSucc

\* C7: consecutiveFailures and consecutiveSuccesses are never both
\* positive.
C7_NotBothPositive ==
    ~(cb.consecutiveFailures > 0 /\ cb.consecutiveSuccesses > 0)

\* C8: a caller is between Lock and Unlock exactly when it holds the mutex,
\* so at most one caller is inside the operation, a hook or the pause, and
\* the state, counters and openTimeout are what that caller itself last
\* left there: nobody else has written them.
C8_MutualExclusion ==
    /\ \A t \in Callers : pc[t] \in InCritical <=> mutex = t
    /\ Cardinality({t \in Callers : pc[t] \in InCritical}) <= 1
    /\ mutex # Unlocked => call.wrote = Data(cb)

C8_Witness ==
    /\ \E t \in Callers : pc[t] \in {"fn", "probe", "onOpen", "sleep"}
    /\ \E t \in Callers : pc[t] = "lock"
    /\ nFail + nSucc >= 1

\* C9: a call returns either what its single invocation of the operation
\* returned, or the open-circuit error after no invocation, the latter only
\* if it found the breaker Open with the cooldown not over; the operation is
\* never invoked twice in one call.
C9_OneInvocationPassedThrough ==
    /\ mutex # Unlocked => call.invoked <= 1
    /\ Returning =>
          \/ /\ call.invoked = 1
             /\ call.err \in OpResults
             /\ call.ret = call.err
          \/ /\ call.invoked = 0
             /\ call.ret = ErrOpen
             /\ FoundOpenEarly

C9_Witness ==
    /\ Returning
    /\ call.invoked = 1
    /\ call.ret = "errB"
    /\ call.path = "halfopen"

\* the fields the specification puts under the lock
Guarded(b) ==
    <<b.state, b.consecutiveFailures, b.consecutiveSuccesses, b.openTimeout,
      b.onOpen, b.onClose, b.onHalfOpen>>

\* C10: every write to the state, the consecutive counters, openTimeout or
\* a hook field is a step of the caller that holds the mutex, inside
\* Execute; and no hook field is written while a caller is inside Execute.
C10_WritesUnderLock ==
    [][ /\ Guarded(cb') # Guarded(cb) =>
              /\ mutex # Unlocked
              /\ pc[mutex] \in InCritical
              /\ pc'[mutex] # pc[mutex]
        /\ HookFields(cb') # HookFields(cb) => mutex = Unlocked
      ]_vars


\* C11: onClose is invoked at most once per call and only by a call that
\* moves the breaker into Closed from another state: a call that found the
\* breaker Closed does not invoke it.
C11_OnCloseOnlyOnTransition ==
    mutex # Unlocked =>
        /\ call.firedClose <= 1
        /\ call.firedClose > 0 => call.entry.state # StateClosed

\* C12: a call that invokes the operation with the breaker HalfOpen (found
\* HalfOpen, or found Open after the cooldown and moved to HalfOpen) sleeps
\* pauseTime once before it returns, whatever the operation returned.
C12_PauseAfterEveryProbe ==
    (Returning /\ call.path \in {"reopen", "halfopen"}
               /\ cb.pauseTime > 0) =>
        /\ call.slept = 1
        /\ now >= call.entryNow + cb.pauseTime

\* C13: a call whose operation returned nil returns with
\* consecutiveFailures = 0; if it found the breaker Closed it leaves it
\* Closed with both consecutive counters 0.
C13_SuccessZeroesFailures ==
    (Returning /\ call.err = Nil) =>
        /\ cb.consecutiveFailures = 0
        /\ call.entry.state = StateClosed =>
              /\ cb.state = StateClosed
              /\ cb.consecutiveSuccesses = 0

\* C14: a call that found the breaker HalfOpen and whose successful probe
\* brings consecutiveSuccesses to maxConsecutiveSuccesses or more returns
\* nil with the state Closed, both consecutive counters 0 and onClose
\* invoked once (if set); with maxConsecutiveSuccesses <= 1 so does the
\* successful call that found the breaker Open after the cooldown.
C14_ResetOnEnoughSuccesses ==
    (Returning /\ call.err = Nil) =>
        /\ ( /\ call.path = "halfopen"
             /\ call.entry.consecutiveSuccesses + 1
                    >= cb.maxConsecutiveSuccesses
             \/ /\ call.path = "reopen"
                /\ cb.maxConsecutiveSuccesses <= 1 ) =>
              /\ cb.state = StateClosed
              /\ cb.consecutiveFailures = 0
              /\ cb.consecutiveSuccesses = 0
              /\ call.resets = 1
              /\ call.firedClose = Fired(call.entry.onClose # NilHook)
              /\ call.ret = Nil

C14_Witness ==
    /\ Returning
    /\ call.path = "halfopen"
    /\ call.err = Nil
    /\ cb.maxConsecutiveSuccesses >= 1
    /\ cb.state = StateClosed
    /\ call.firedClose = 1

\* C15: the state, the counters and openTimeout change only in a step of
\* the caller that is inside Execute; a step of the clock changes none of
\* them, so an Open breaker that nobody calls stays Open.
C15_ChangesOnlyInsideExecute ==
    [][ /\ Data(cb') # Data(cb) =>
              /\ mutex # Unlocked
              /\ pc[mutex] \in InCritical
              /\ pc'[mutex] # pc[mutex]
        /\ now' # now /\ pc' = pc => Data(cb') = Data(cb)
      ]_vars

C15_Witness ==
    /\ cb.state = StateOpen
    /\ mutex = Unlocked
    /\ \A t \in Callers : pc[t] \in {"idle", "off"}
    /\ cb.timeout > 0
    /\ now > cb.openTimeout

\* C16: with maxFailures <= 0 a failing call that found the breaker Closed
\* trips it to Open; with maxConsecutiveSuccesses <= 0 a successful call
\* that invoked the operation with the breaker HalfOpen resets it to
\* Closed.
C16_NonPositiveThresholds ==
    Returning =>
        /\ ( /\ call.entry.state = StateClosed
             /\ call.err \in OpErrors
             /\ cb.maxFailures <= 0 ) =>
              /\ cb.state = StateOpen
              /\ call.trips = 1
        /\ ( /\ call.path \in {"reopen", "halfopen"}
             /\ call.err = Nil
             /\ cb.maxConsecutiveSuccesses <= 0 ) =>
              /\ cb.state = StateClosed
              /\ call.resets = 1

C16_Witness ==
    /\ Returning
    /\ call.path = "halfopen"
    /\ call.err = Nil
    /\ call.entry.consecutiveSuccesses = 0
    /\ cb.maxConsecutiveSuccesses <= 0
    /\ cb.state = StateClosed

\* C17: between Execute calls, an Open breaker has both consecutive
\* counters 0, consecutiveSuccesses > 0 only if HalfOpen, and
\* consecutiveFailures > 0 only if Closed.
C17_CountersMatchState ==
    mutex = Unlocked =>
        /\ cb.state = StateOpen =>
              cb.consecutiveFailures = 0 /\ cb.consecutiveSuccesses = 0
        /\ cb.consecutiveSuccesses > 0 => cb.state = StateHalfOpen
        /\ cb.consecutiveFailures > 0 => cb.state = StateClosed

\* C18: between Execute calls, both consecutive counters are >= 0,
\* consecutiveFailures < maxFailures when maxFailures >= 1, and
\* consecutiveSuccesses < maxConsecutiveSuccesses when
\* maxConsecutiveSuccesses >= 1.
C18_CountersBelowThresholds ==
    mutex = Unlocked =>
        /\ cb.consecutiveFailures >= 0
        /\ cb.consecutiveSuccesses >= 0
        /\ cb.maxFailures >= 1 => cb.consecutiveFailures < cb.maxFailures
        /\ cb.maxConsecutiveSuccesses >= 1 =>
              cb.consecutiveSuccesses < cb.maxConsecutiveSuccesses

C18_Witness ==
    /\ mutex = Unlocked
    /\ cb.consecutiveSuccesses >= 1
    /\ cb.consecutiveSuccesses = cb.maxConsecutiveSuccesses - 1
    /\ cb.consecutiveFailures >= 1
    /\ cb.consecutiveFailures = cb.maxFailures - 1


\* C19: once the operation has recovered, with Execute called again and
\* again and the clock running, the breaker is eventually Closed for good;
\* and whatever the operation returns, the caller inside Execute always has
\* a next step.
C19_Recovery ==
    /\ <>healed => <>[](cb.state = StateClosed)
    /\ [](mutex # Unlocked => ENABLED Step(mutex))

C19_Witness ==
    /\ healed
    /\ Returning
    /\ call.path = "halfopen"
    /\ cb.state = StateClosed
    /\ nFail + nSucc > MaxOps

\* C20: a caller waiting for the mutex eventually returns from Execute,
\* unless fn() or a hook has called Execute on the same breaker; a caller
\* outside Execute never holds the mutex; and once fn() or a hook has called
\* Execute, that caller keeps the mutex for ever and every caller waiting
\* for it keeps waiting.
C20_Termination ==
    /\ \A t \in Callers :
          pc[t] = "lock" ~>
              (pc[t] = "idle" \/ \E u \in Callers : pc[u] = "nested")
    /\ [](\A t \in Callers : pc[t] \in {"idle", "lock"} => mutex # t)
    /\ [][\A t \in Callers : pc[t] = "nested" =>
              /\ pc'[t] = "nested"
              /\ mutex' = t
              /\ \A u \in Callers : pc[u] = "lock" => pc'[u] = "lock"
         ]_vars

C20_Witness ==
    /\ Returning
    /\ call.path = "halfopen"
    /\ \E u \in Callers : pc[u] = "lock"

=============================================================================
